---- MODULE Spec2Model ----
(***************************************************************************)
(* Model of the xbmgmt "hotplug" sub-command                               *)
(* (src/runtime_src/core/pcie/tools/xbmgmt/cmd_hotplug.cpp).               *)
(*                                                                         *)
(* hotplugHandler parses its switches, asks for confirmation, then runs    *)
(* the offline path (shutdownDevice, removeDevice on the user pf,          *)
(* removeDevice on the mgmt pf) and the online path (hotplugRescan, which  *)
(* calls findXilinxRootPort).  The sysfs attributes, the directory listing *)
(* and the operator's answer are the environment: every call into them     *)
(* picks its outcome nondeterministically.  `trace` records every call     *)
(* the program makes on the pseudo-filesystem, in order.                   *)
(***************************************************************************)
EXTENDS Integers, Sequences, FiniteSets, TLC

VARIABLES
    pc,             \* position in hotplugHandler / shutdownDevice
    argv,           \* arguments getopt_long has not consumed yet (argv[1..])
    index,          \* hotplugHandler: index
    isRemove,       \* hotplugHandler: isRemove
    isRescan,       \* hotplugHandler: isRescan
    ret,            \* hotplugHandler: ret (last callee result)
    exitCode,       \* value hotplugHandler returned (meaningful at pc = "done")
    wait,           \* shutdownDevice: wait
    shutdownStatus, \* shutdownDevice: shutdownStatus
    hasShutdown,    \* environment: the user pf has a "shutdown" attribute
    sysfs,          \* environment: listing of SYSFS_PATH as the directory iterators read it
    rootPortPath,   \* result of findXilinxRootPort in hotplugRescan
    trace           \* every pseudo-filesystem call made so far

vars == <<pc, argv, index, isRemove, isRescan, ret, exitCode, wait,
          shutdownStatus, hasShutdown, sysfs, rootPortPath, trace>>

----------------------------------------------------------------------------
(* Bounds of the model *)

MaxArgs == 2        \* arguments after the sub-command name
MaxBridges == 2     \* top-level entries under SYSFS_PATH
MaxEntries == 3     \* child entries in the whole listing

----------------------------------------------------------------------------
(* Program constants *)

SYSFS_PATH == "/sys/bus/pci/devices"
XILINX_VENDOR == "0x10ee"
XILINX_US == "0x9134"
POLL_TIMEOUT == 60
\* (unsigned int)-1, the "no such device" value; written as the signed value
\* of the same 32-bit pattern
UINT_MAX == -1

EINVAL == 22
ENOENT == 2
ECANCELED == 125
ETIMEDOUT == 110
EACCES == 13

----------------------------------------------------------------------------
(* Paths (boost::filesystem::path): a sequence of components; the empty    *)
(* path is the empty sequence, a path of one relative component is         *)
(* resolved against the current working directory.                         *)

EmptyPath == <<>>

\* path::operator/= : appends the component; an empty left side gets no
\* separator, so the result is the bare component.
PathAppend(p, name) == Append(p, name)

\* path::empty()
PathEmpty(p) == Len(p) = 0

BridgeNames == <<"0000:00:01.0", "0000:00:02.0", "0000:00:03.0", "0000:00:04.0">>

\* file->path() of the i-th top-level entry in enumeration order
BridgePath(i) == <<SYSFS_PATH, BridgeNames[i]>>

\* dev->get_sysfs_path("", attr) of the user / mgmt function
DevicePath(is_userpf, attr) == <<IF is_userpf THEN "userpf" ELSE "mgmtpf", attr>>

Event(op, path, ok) == [op |-> op, path |-> path, ok |-> ok]

----------------------------------------------------------------------------
(* The directory listing findXilinxRootPort walks *)

NoAttr == "absent"              \* the attribute file does not exist
OTHER_VENDOR == "0x8086"
OTHER_DEVICE == "0x1234"

VendorValues == {NoAttr, XILINX_VENDOR, OTHER_VENDOR}
DeviceValues == {NoAttr, XILINX_US, OTHER_DEVICE}

Child(dir, vendor, device) == [dir |-> dir, vendor |-> vendor, device |-> device]

\* every kind of entry of a bridge directory: a plain file, or a directory
\* with each combination of vendor / device attribute
ChildKinds ==
    {Child(FALSE, NoAttr, NoAttr)} \cup
    {Child(TRUE, v, d) : v \in VendorValues, d \in DeviceValues}

\* the kinds the runs of the whole sub-command draw from: a child that is
\* the device searched for, and one that is not
ScanKinds ==
    {Child(TRUE, XILINX_VENDOR, XILINX_US),
     Child(TRUE, XILINX_VENDOR, OTHER_DEVICE)}

\* the kinds the online-only runs draw from: these, a plain file, and
\* directories that lack the vendor attribute or both attributes
OnlineKinds ==
    ScanKinds \cup
    {Child(TRUE, NoAttr, XILINX_US),
     Child(TRUE, NoAttr, NoAttr),
     Child(FALSE, NoAttr, NoAttr)}

RECURSIVE Sum(_)
Sum(s) == IF Len(s) = 0 THEN 0 ELSE Head(s) + Sum(Tail(s))

\* the ways n child entries spread over at most MaxBridges bridges: the
\* number of children of each bridge, in enumeration order
Cuts(n) == {c \in UNION {[1..b -> 0..n] : b \in 0..MaxBridges} : Sum(c) = n}

\* the listing whose bridges hold, in order, c[1], c[2], ... of the entries kids
Listing(kids, c) ==
    [i \in 1..Len(c) |->
        SubSeq(kids, Sum(SubSeq(c, 1, i - 1)) + 1, Sum(SubSeq(c, 1, i)))]

----------------------------------------------------------------------------
(* findXilinxRootPort *)

\* "if (exists(p)) { ifstream file(p); file >> id; }": the string is
\* overwritten when the attribute is there, and keeps its previous value
\* when it is not.
ReadAttr(attr, old) == IF attr = NoAttr THEN old ELSE attr

\* !vendor_id.compare(XILINX_VENDOR) && !device_id.compare(XILINX_US)
IsXilinxUS(vendor_id, device_id) ==
    vendor_id = XILINX_VENDOR /\ device_id = XILINX_US

RECURSIVE ScanFrom(_, _, _, _, _)
\* the two nested directory_iterator loops, at bridge i, child j, with the
\* function-scope strings vendor_id and device_id
ScanFrom(tree, i, j, vendor_id, device_id) ==
    IF i > Len(tree) THEN EmptyPath
    ELSE IF j > Len(tree[i]) THEN ScanFrom(tree, i + 1, 1, vendor_id, device_id)
    ELSE LET child == tree[i][j] IN
         IF ~child.dir THEN ScanFrom(tree, i, j + 1, vendor_id, device_id)
         ELSE LET v == ReadAttr(child.vendor, vendor_id)
                  d == ReadAttr(child.device, device_id)
              IN  IF IsXilinxUS(v, d) THEN BridgePath(i)
                  ELSE ScanFrom(tree, i, j + 1, v, d)

findXilinxRootPort(tree) == ScanFrom(tree, 1, 1, "", "")

----------------------------------------------------------------------------
(* Command line *)

\* "--offline=bdf" names a device bdf2index resolves, "--offline=nodev" one
\* it does not; "--bogus" is a switch getopt_long does not know; "file" is
\* a non-option argument.
ArgTokens == {"--offline=bdf", "--offline=nodev", "--online", "--bogus", "file"}

ArgLists == UNION {[1..n -> ArgTokens] : n \in 0..MaxArgs}

\* bdf2index(optarg): the index of the device, UINT_MAX when there is none
bdf2index(token) == IF token = "--offline=bdf" THEN 0 ELSE UINT_MAX

\* position of the next option in argv, 0 when only non-options are left
\* (getopt_long skips non-option arguments and returns -1 at the end)
NextOpt(args) ==
    IF \E k \in DOMAIN args : args[k] # "file"
    THEN CHOOSE k \in DOMAIN args :
            /\ args[k] # "file"
            /\ \A m \in 1..(k - 1) : args[m] = "file"
    ELSE 0

----------------------------------------------------------------------------
(* Initial state: hotplugHandler entered with some argument list *)

Init ==
    /\ pc = "start"
    /\ argv \in ArgLists
    /\ index = UINT_MAX
    /\ isRemove = 0
    /\ isRescan = 0
    /\ ret = 0
    /\ exitCode = 0
    /\ wait = 0
    /\ shutdownStatus = -EINVAL
    /\ hasShutdown \in BOOLEAN
    /\ sysfs = <<>>
    /\ rootPortPath = EmptyPath
    /\ trace = <<>>

\* "return code;" from hotplugHandler
Return(code) ==
    /\ pc' = "done"
    /\ exitCode' = code

----------------------------------------------------------------------------
(* hotplugHandler: argument parsing and confirmation *)

\* lines 43-58: argc counts the sub-command name too
CheckArgc ==
    /\ pc = "start"
    /\ IF Len(argv) + 1 < 2
       THEN Return(-EINVAL)
       ELSE pc' = "getopt" /\ UNCHANGED exitCode
    /\ UNCHANGED <<argv, index, isRemove, isRescan, ret, wait, shutdownStatus,
                   hasShutdown, sysfs, rootPortPath, trace>>

\* the handler going on with an identifier bdf2index could not resolve
Unresolved_unchecked(idx) == FALSE

\* lines 71-72: "if (index == UINT_MAX)"
Unresolved(idx) == idx = UINT_MAX

\* lines 60-84: one turn of the getopt_long loop
ParseOption ==
    /\ pc = "getopt"
    /\ LET k == NextOpt(argv) IN
       IF k = 0
       THEN /\ pc' = "confirm"
            /\ argv' = <<>>
            /\ UNCHANGED <<index, isRemove, isRescan, exitCode>>
       ELSE LET opt == argv[k] IN
            /\ argv' = SubSeq(argv, k + 1, Len(argv))
            /\ CASE opt \in {"--offline=bdf", "--offline=nodev"} ->
                      /\ index' = bdf2index(opt)
                      /\ IF Unresolved(index')
                         THEN Return(-ENOENT) /\ UNCHANGED isRemove
                         ELSE isRemove' = 1 /\ UNCHANGED <<pc, exitCode>>
                      /\ UNCHANGED isRescan
                 [] opt = "--online" ->
                      /\ isRescan' = 1
                      /\ UNCHANGED <<pc, exitCode, index, isRemove>>
                 [] OTHER ->
                      /\ Return(-EINVAL)
                      /\ UNCHANGED <<index, isRemove, isRescan>>
    /\ UNCHANGED <<ret, wait, shutdownStatus, hasShutdown, sysfs, rootPortPath, trace>>

\* lines 86-92: canProceed() is the operator's answer
Confirm ==
    /\ pc = "confirm"
    /\ \E canProceed \in BOOLEAN :
         IF ~canProceed
         THEN Return(-ECANCELED)
         ELSE /\ pc' = IF isRemove # 0 THEN "shutdown" ELSE "online"
              /\ UNCHANGED exitCode
    /\ UNCHANGED <<argv, index, isRemove, isRescan, ret, wait, shutdownStatus,
                   hasShutdown, sysfs, rootPortPath, trace>>

----------------------------------------------------------------------------
(* Offline path: shutdownDevice *)

UserShutdown == DevicePath(TRUE, "shutdown")

\* values the "shutdown" attribute can read back as
StatusValues == {0, 1, 2}

\* the handler without its special case for a missing device
ShutdownFailed_noSpecialCase(r) == -EINVAL

\* the handler taking every failure of shutdownDevice for a missing device
ShutdownFailed_allAbsent(r) == 0

\* the handler returning what shutdownDevice returned
ShutdownFailed_propagates(r) == r

\* lines 99-111: what hotplugHandler returns when shutdownDevice gave r # 0
ShutdownFailed(r) == IF r = -ENOENT THEN 0 ELSE -EINVAL

\* the loop without its bound: "while (true)"
PollOutcome_noBound(v, w) == IF v = 1 THEN "success" ELSE "again"

\* the loop bound off by one: "wait++ < POLL_TIMEOUT"
PollOutcome_oneMore(v, w) ==
    IF v = 1 THEN "success"
    ELSE IF w < POLL_TIMEOUT THEN "again"
    ELSE "timeout"

\* the loop bound tested before the status that was just read
PollOutcome_boundFirst(v, w) ==
    IF w + 1 >= POLL_TIMEOUT THEN "timeout"
    ELSE IF v = 1 THEN "success"
    ELSE "again"

\* lines 167-174: after a status read of v in the iteration entered with
\* wait = w: "success" returns 0, "again" loops, "timeout" leaves the loop
PollOutcome(v, w) ==
    IF v = 1 THEN "success"
    ELSE IF w + 1 < POLL_TIMEOUT THEN "again"
    ELSE "timeout"

\* lines 94-98 and 138-148 (and 99-106 when the attribute is missing)
ShutdownExists ==
    /\ pc = "shutdown"
    /\ trace' = Append(trace, Event("exists", UserShutdown, hasShutdown))
    /\ wait' = 0
    /\ shutdownStatus' = -EINVAL
    /\ IF ~hasShutdown
       THEN /\ ret' = -ENOENT
            /\ Return(ShutdownFailed(ret'))
       ELSE /\ pc' = "put"
            /\ UNCHANGED <<ret, exitCode>>
    /\ UNCHANGED <<argv, index, isRemove, isRescan, hasShutdown, sysfs, rootPortPath>>

\* lines 150-155 (and 107-111 when the write fails): errmsg.empty() is ok
ShutdownPut ==
    /\ pc = "put"
    /\ \E ok \in BOOLEAN :
         /\ trace' = Append(trace, Event("put", UserShutdown, ok))
         /\ IF ~ok
            THEN /\ ret' = -EINVAL
                 /\ Return(ShutdownFailed(ret'))
            ELSE /\ pc' = "poll"
                 /\ UNCHANGED <<ret, exitCode>>
    /\ UNCHANGED <<argv, index, isRemove, isRescan, wait, shutdownStatus,
                   hasShutdown, sysfs, rootPortPath>>

\* lines 158-174: one iteration of the do-while loop (and 99-112 on return);
\* sysfs_get leaves its default, EINVAL, in shutdownStatus when it fails
ShutdownPoll ==
    /\ pc = "poll"
    /\ \E ok \in BOOLEAN :
       \E v \in IF ok THEN StatusValues ELSE {EINVAL} :
         /\ trace' = trace \o <<Event("sleep", EmptyPath, TRUE),
                                Event("get", UserShutdown, ok)>>
         /\ shutdownStatus' = v
         /\ IF ~ok
            THEN /\ ret' = -EINVAL
                 /\ Return(ShutdownFailed(ret'))
                 /\ UNCHANGED wait
            ELSE CASE PollOutcome(v, wait) = "success" ->
                           /\ ret' = 0
                           /\ pc' = "remove_user"
                           /\ UNCHANGED <<wait, exitCode>>
                   [] PollOutcome(v, wait) = "again" ->
                           /\ wait' = wait + 1
                           /\ UNCHANGED <<pc, ret, exitCode>>
                   [] OTHER ->
                           /\ wait' = wait + 1
                           /\ ret' = -ETIMEDOUT
                           /\ Return(ShutdownFailed(ret'))
    /\ UNCHANGED <<argv, index, isRemove, isRescan, hasShutdown, sysfs, rootPortPath>>

----------------------------------------------------------------------------
(* Offline path: removeDevice *)

\* the second call made without "is_userpf = false"
IsUserPf_neverCleared(step) == TRUE

\* lines 114-116 and 120-122: the is_userpf flag of the first and of the
\* second removeDevice call
IsUserPf(step) == step = "remove_user"

\* removeDevice without its errmsg check
removeDevice_ignoresError(ok) == 0

\* lines 183-190: errmsg.empty() is ok
removeDevice(ok) == IF ok THEN 0 ELSE -EINVAL

\* lines 114-118
RemoveUserPf ==
    /\ pc = "remove_user"
    /\ \E ok \in BOOLEAN :
         /\ trace' = Append(trace, Event("put", DevicePath(IsUserPf(pc), "remove"), ok))
         /\ ret' = removeDevice(ok)
         /\ IF ret' # 0
            THEN Return(ret')
            ELSE pc' = "remove_mgmt" /\ UNCHANGED exitCode
    /\ UNCHANGED <<argv, index, isRemove, isRescan, wait, shutdownStatus,
                   hasShutdown, sysfs, rootPortPath>>

\* lines 120-125
RemoveMgmtPf ==
    /\ pc = "remove_mgmt"
    /\ \E ok \in BOOLEAN :
         /\ trace' = Append(trace, Event("put", DevicePath(IsUserPf(pc), "remove"), ok))
         /\ ret' = removeDevice(ok)
         /\ IF ret' # 0
            THEN Return(ret')
            ELSE pc' = "online" /\ UNCHANGED exitCode
    /\ UNCHANGED <<argv, index, isRemove, isRescan, wait, shutdownStatus,
                   hasShutdown, sysfs, rootPortPath>>

----------------------------------------------------------------------------
(* Online path: hotplugRescan *)

\* errno after a failed open or write
Errnos == {EACCES}

\* lines 248-253: the path hotplugRescan works on, and its early return
RescanPath(root) == PathAppend(root, "rescan")

\* hotplugRescan leaving the stream open when the write failed
RescanCalls_noCloseOnError(sysfs_path, outcome) ==
    CASE outcome = "written" ->
            <<Event("open", sysfs_path, TRUE), Event("write", sysfs_path, TRUE),
              Event("close", sysfs_path, TRUE)>>
      [] outcome = "write failed" ->
            <<Event("open", sysfs_path, TRUE), Event("write", sysfs_path, FALSE)>>
      [] OTHER ->
            <<Event("open", sysfs_path, FALSE)>>

\* lines 257-279: the calls hotplugRescan makes on the file at sysfs_path:
\* a stream that opened is closed whether the write went through or not,
\* one that did not open is not closed
RescanCalls(sysfs_path, outcome) ==
    CASE outcome = "written" ->
            <<Event("open", sysfs_path, TRUE), Event("write", sysfs_path, TRUE),
              Event("close", sysfs_path, TRUE)>>
      [] outcome = "write failed" ->
            <<Event("open", sysfs_path, TRUE), Event("write", sysfs_path, FALSE),
              Event("close", sysfs_path, TRUE)>>
      [] OTHER ->
            <<Event("open", sysfs_path, FALSE)>>

\* hotplugRescan returning "-errno" with an errno that reads 0
RescanResult_errnoCleared(outcome, errno) == 0

\* lines 257-281: what hotplugRescan returns: "-errno" after a failed open
\* or write, 0 after the write
RescanResult(outcome, errno) == IF outcome = "written" THEN 0 ELSE -errno

\* lines 127-135 and 245-282: the listing is read, the root port searched
\* and its rescan attribute written; the listing is made of entries of the
\* given kinds
Rescan(kinds) ==
    /\ pc = "online"
    /\ isRescan # 0
    /\ \E n \in 0..MaxEntries : \E c \in Cuts(n), kids \in [1..n -> kinds] :
         LET tree == Listing(kids, c)
             root == findXilinxRootPort(tree)
             sysfs_path == RescanPath(root)
             scanned == Append(trace, Event("scan", <<SYSFS_PATH>>, TRUE))
         IN  /\ sysfs' = tree
             /\ rootPortPath' = root
             /\ \E outcome \in {"written", "write failed", "open failed"},
                   errno \in Errnos :
                  /\ IF PathEmpty(sysfs_path)
                     THEN /\ trace' = scanned
                          /\ ret' = -ENOENT
                     ELSE /\ trace' = scanned \o RescanCalls(sysfs_path, outcome)
                          /\ ret' = RescanResult(outcome, errno)
                  /\ Return(ret')
    /\ UNCHANGED <<argv, index, isRemove, isRescan, wait, shutdownStatus, hasShutdown>>

hotplugRescan == Rescan(ScanKinds)

\* lines 127 and 135: no rescan was asked for
ReturnRet ==
    /\ pc = "online"
    /\ isRescan = 0
    /\ Return(ret)
    /\ UNCHANGED <<argv, index, isRemove, isRescan, ret, wait, shutdownStatus,
                   hasShutdown, sysfs, rootPortPath, trace>>

----------------------------------------------------------------------------
(* The sub-command *)

Next ==
    \/ CheckArgc
    \/ ParseOption
    \/ Confirm
    \/ ShutdownExists
    \/ ShutdownPut
    \/ ShutdownPoll
    \/ RemoveUserPf
    \/ RemoveMgmtPf
    \/ hotplugRescan
    \/ ReturnRet

Spec == Init /\ [][Next]_vars

----------------------------------------------------------------------------
(* Online requests only, over listings with missing attributes *)

OnlineArgLists == UNION {[1..n -> {"--online", "file"}] : n \in 0..MaxArgs}

InitOnline ==
    /\ pc = "start"
    /\ argv \in OnlineArgLists
    /\ index = UINT_MAX
    /\ isRemove = 0
    /\ isRescan = 0
    /\ ret = 0
    /\ exitCode = 0
    /\ wait = 0
    /\ shutdownStatus = -EINVAL
    /\ hasShutdown = FALSE
    /\ sysfs = <<>>
    /\ rootPortPath = EmptyPath
    /\ trace = <<>>

hotplugRescanAny == Rescan(OnlineKinds)

NextOnline ==
    \/ CheckArgc
    \/ ParseOption
    \/ Confirm
    \/ hotplugRescanAny
    \/ ReturnRet

SpecOnline == InitOnline /\ [][NextOnline]_vars

----------------------------------------------------------------------------
(* findXilinxRootPort on its own, over every listing *)

InitFind ==
    /\ pc = "find"
    /\ argv = <<>>
    /\ index = UINT_MAX
    /\ isRemove = 0
    /\ isRescan = 1
    /\ ret = 0
    /\ exitCode = 0
    /\ wait = 0
    /\ shutdownStatus = -EINVAL
    /\ hasShutdown = FALSE
    /\ \E n \in 0..MaxEntries : \E c \in Cuts(n), kids \in [1..n -> ChildKinds] :
         sysfs = Listing(kids, c)
    /\ rootPortPath = EmptyPath
    /\ trace = <<>>

\* line 248
FindRootPort ==
    /\ pc = "find"
    /\ rootPortPath' = findXilinxRootPort(sysfs)
    /\ pc' = "found"
    /\ UNCHANGED <<argv, index, isRemove, isRescan, ret, exitCode, wait,
                   shutdownStatus, hasShutdown, sysfs, trace>>

NextFind == FindRootPort

SpecFind == InitFind /\ [][NextFind]_vars

----------------------------------------------------------------------------
(* What the trace shows *)

UserRemove == DevicePath(TRUE, "remove")
MgmtRemove == DevicePath(FALSE, "remove")

Occurs(e) == \E i \in DOMAIN trace : trace[i] = e
Positions(op) == {i \in DOMAIN trace : trace[i].op = op}
NumGets == Cardinality(Positions("get"))
NumSleeps == Cardinality(Positions("sleep"))

\* number of "remove" writes that succeeded
RemovesOk ==
    Cardinality({i \in Positions("put") :
                    trace[i].path[2] = "remove" /\ trace[i].ok})

\* the calls of k complete poll iterations that all read a status:
\* exists, put, then k times sleep, get
PollPrefix(k) ==
    [i \in 1..(2 + 2 * k) |->
        IF i = 1 THEN Event("exists", UserShutdown, TRUE)
        ELSE IF i = 2 THEN Event("put", UserShutdown, TRUE)
        ELSE IF i % 2 = 1 THEN Event("sleep", EmptyPath, TRUE)
        ELSE Event("get", UserShutdown, TRUE)]

\* reads and writes of attributes, as opposed to existence checks and sleeps
IsAttrOp(e) == e.op \in {"put", "get", "open", "write"}
AttrOps == SelectSeq(trace, IsAttrOp)

\* the attribute operations of an offline run that ends its poll on iteration k
OfflineOps(k) ==
    [i \in 1..(k + 3) |->
        IF i = 1 THEN Event("put", UserShutdown, TRUE)
        ELSE IF i <= k + 1 THEN Event("get", UserShutdown, TRUE)
        ELSE IF i = k + 2 THEN Event("put", UserRemove, TRUE)
        ELSE Event("put", MgmtRemove, TRUE)]

----------------------------------------------------------------------------
(* Offline path *)

\* C1: a remove write on the management function is only ever issued after
\* a remove write on the user function that succeeded; after a failed
\* remove of the user function no remove of the management function is
\* issued at all.
C1_RemoveUserBeforeMgmt ==
    /\ \A i \in Positions("put") :
         trace[i].path = MgmtRemove =>
            \E j \in 1..(i - 1) : trace[j] = Event("put", UserRemove, TRUE)
    /\ Occurs(Event("put", UserRemove, FALSE)) =>
         \A i \in Positions("put") : trace[i].path # MgmtRemove

C1_Witness ==
    /\ pc = "done"
    /\ \E i \in Positions("put") : trace[i].path = MgmtRemove

\* C2: when the "shutdown" attribute does not exist, shutdownDevice returns
\* -ENOENT having made no call but the existence check, and hotplugHandler
\* returns 0 at once: no attribute is written or read, no remove, no rescan.
C2_AbsentDeviceIsNoOp ==
    Occurs(Event("exists", UserShutdown, FALSE)) =>
        /\ trace = <<Event("exists", UserShutdown, FALSE)>>
        /\ ret = -ENOENT
        /\ pc = "done"
        /\ exitCode = 0

C2_Witness ==
    /\ pc = "done"
    /\ Occurs(Event("exists", UserShutdown, FALSE))

\* C3: the poll loop never reads the status more than POLL_TIMEOUT times;
\* when POLL_TIMEOUT reads all succeeded and none gave 1, shutdownDevice has
\* returned -ETIMEDOUT, and whenever it returns -ETIMEDOUT the calls made
\* are exactly one write and POLL_TIMEOUT sleep-then-read pairs, with no
\* remove.
C3_TimeoutAfter60Polls ==
    /\ NumGets <= POLL_TIMEOUT
    /\ (/\ NumGets = POLL_TIMEOUT
        /\ shutdownStatus # 1
        /\ \A i \in Positions("get") : trace[i].ok)
       => (pc = "done" /\ ret = -ETIMEDOUT)
    /\ ret = -ETIMEDOUT =>
         /\ pc = "done"
         /\ trace = PollPrefix(POLL_TIMEOUT)
         /\ RemovesOk = 0

C3_Witness ==
    /\ pc = "done"
    /\ ret = -ETIMEDOUT
    /\ NumGets = POLL_TIMEOUT

\* C4: once a status read gives 1, on iteration k = wait + 1 with
\* 1 <= k <= POLL_TIMEOUT, shutdownDevice returns 0 straight away: the calls
\* it made are one write and k sleep-then-read pairs, there is no further
\* sleep or read, and it is never a timeout, k = POLL_TIMEOUT included.
C4_SuccessOnFirstOne ==
    shutdownStatus = 1 =>
        /\ wait + 1 \in 1..POLL_TIMEOUT
        /\ SubSeq(trace, 1, 2 + 2 * (wait + 1)) = PollPrefix(wait + 1)
        /\ NumGets = wait + 1
        /\ NumSleeps = wait + 1
        /\ pc \in {"remove_user", "remove_mgmt", "online", "done"}
        /\ ret # -ETIMEDOUT
        /\ pc = "remove_user" => (ret = 0 /\ trace = PollPrefix(wait + 1))

C4_Witness ==
    /\ shutdownStatus = 1
    /\ pc = "remove_user"
    /\ NumGets = POLL_TIMEOUT

\* C9: an offline-only run whose two removes succeeded ends with 0, and its
\* attribute operations are exactly the shutdown write, the k status reads
\* of its k poll iterations, the remove write on the user function and the
\* remove write on the management function, in that order.
C9_OfflineSequence ==
    (pc = "done" /\ isRemove = 1 /\ isRescan = 0 /\ RemovesOk = 2) =>
        /\ exitCode = 0
        /\ NumGets = wait + 1
        /\ AttrOps = OfflineOps(NumGets)

C9_Witness ==
    /\ pc = "done"
    /\ isRemove = 1
    /\ isRescan = 0
    /\ RemovesOk = 2
    /\ NumGets = 3

----------------------------------------------------------------------------
(* Online path *)

\* a child directory whose own vendor and device attributes are the pair
\* searched for
Qualifies(child) ==
    child.dir /\ child.vendor = XILINX_VENDOR /\ child.device = XILINX_US

\* the bridges of a listing that have such a child, by enumeration position
QualifyingBridges(tree) ==
    {i \in DOMAIN tree : \E j \in DOMAIN tree[i] : Qualifies(tree[i][j])}

FirstOf(S) == CHOOSE i \in S : \A k \in S : i <= k

\* hotplugRescan has run
Scanned == Occurs(Event("scan", <<SYSFS_PATH>>, TRUE))

\* writes of "1" that went through
RescanWrites == {i \in Positions("write") : trace[i].ok}

\* C5: when findXilinxRootPort returned the empty path, hotplugRescan
\* returns -ENOENT and opens nothing.
C5_EmptyRootIsNotFound ==
    (Scanned /\ PathEmpty(rootPortPath)) =>
        (ret = -ENOENT /\ Positions("open") = {})

\* C6: an online-only run over a listing in which no bridge has a matching
\* child returns -ENOENT and writes "1" to no file.
C6_NoMatchNoWrite ==
    (pc = "done" /\ isRemove = 0 /\ Scanned /\ QualifyingBridges(sysfs) = {}) =>
        (exitCode = -ENOENT /\ RescanWrites = {})

\* C7: findXilinxRootPort returns either the empty path or the path of a
\* bridge one of whose own children carries both identifiers.
C7_ReturnedBridgeQualifies ==
    pc = "found" =>
        \/ PathEmpty(rootPortPath)
        \/ \E i \in QualifyingBridges(sysfs) : rootPortPath = BridgePath(i)

\* C8: when some bridge has a qualifying child, findXilinxRootPort returns
\* the first such bridge in enumeration order: children with a missing
\* attribute before it never match.
C8_FirstQualifyingBridge ==
    (pc = "found" /\ QualifyingBridges(sysfs) # {}) =>
        rootPortPath = BridgePath(FirstOf(QualifyingBridges(sysfs)))

\* C10: an online-only run over a listing in which exactly one bridge has a
\* qualifying child, and whose open and write succeed, returns 0 and opens
\* and writes the rescan attribute of that bridge and no other file.
C10_RescanUnderTheBridge ==
    (/\ pc = "done"
     /\ isRemove = 0
     /\ Scanned
     /\ Cardinality(QualifyingBridges(sysfs)) = 1
     /\ RescanWrites # {})
    => /\ exitCode = 0
       /\ \A i \in Positions("open") \cup Positions("write") :
            trace[i].path = RescanPath(BridgePath(FirstOf(QualifyingBridges(sysfs))))

----------------------------------------------------------------------------
(* The whole invocation *)

\* C11: a declined confirmation ends the run with -ECANCELED and an
\* identifier that bdf2index cannot resolve ends it with -ENOENT, both with
\* no call made on any attribute; and no call on an attribute is made while
\* the handler is still parsing its arguments or waiting for the answer.
C11_NothingBeforeConfirmation ==
    [][/\ (pc = "confirm" /\ pc' = "done") =>
             (exitCode' = -ECANCELED /\ trace' = <<>>)
       /\ (/\ pc = "getopt"
           /\ NextOpt(argv) # 0
           /\ argv[NextOpt(argv)] = "--offline=nodev") =>
             (pc' = "done" /\ exitCode' = -ENOENT /\ trace' = <<>>)
       /\ trace' # <<>> => pc \notin {"start", "getopt", "confirm"}]_vars

C11_Witness ==
    /\ pc = "done"
    /\ exitCode = -ECANCELED
    /\ isRemove = 1
    /\ trace = <<>>

\* positions of the calls of the online path
OnlineOps == Positions("scan") \cup Positions("open") \cup Positions("write")

\* POLL_TIMEOUT status reads were made and none gave 1
ShutdownTimedOut ==
    /\ NumGets = POLL_TIMEOUT
    /\ shutdownStatus # 1
    /\ \A i \in Positions("get") : trace[i].ok

\* a step of the offline path failed: the shutdown write, a status read,
\* the poll as a whole, or one of the two remove writes
OfflineFailed ==
    \/ Occurs(Event("put", UserShutdown, FALSE))
    \/ Occurs(Event("get", UserShutdown, FALSE))
    \/ ShutdownTimedOut
    \/ Occurs(Event("put", UserRemove, FALSE))
    \/ Occurs(Event("put", MgmtRemove, FALSE))

\* C12: in a run asked to take the device offline, every call of the online
\* path (the listing scan, the open and the write of the rescan file) comes
\* after a remove write on the management function that succeeded; and once
\* a step of the offline path has failed, no call of the online path is made.
C12_OnlineOnlyAfterOffline ==
    /\ isRemove # 0 =>
         \A j \in OnlineOps :
            \E i \in 1..(j - 1) : trace[i] = Event("put", MgmtRemove, TRUE)
    /\ OfflineFailed => OnlineOps = {}

C12_Witness ==
    /\ pc = "done"
    /\ isRemove = 1
    /\ isRescan = 1
    /\ RescanWrites # {}
    /\ Occurs(Event("put", MgmtRemove, TRUE))

\* shutdownDevice failed, and not for want of the attribute: the write
\* failed, a status read failed, or the poll timed out
ShutdownError ==
    \/ Occurs(Event("put", UserShutdown, FALSE))
    \/ Occurs(Event("get", UserShutdown, FALSE))
    \/ ShutdownTimedOut

\* C13: when shutdownDevice fails with anything but -ENOENT (write failure,
\* read failure, timeout), hotplugHandler has returned -EINVAL, with no
\* remove write and no call of the online path.
C13_ShutdownErrorIsInvalid ==
    ShutdownError =>
        /\ pc = "done"
        /\ ret \in {-EINVAL, -ETIMEDOUT}
        /\ exitCode = -EINVAL
        /\ \A i \in Positions("put") : trace[i].path = UserShutdown
        /\ OnlineOps = {}

C13_Witness ==
    /\ pc = "done"
    /\ Occurs(Event("get", UserShutdown, FALSE))
    /\ NumGets = 2
    /\ exitCode = -EINVAL

\* no call failed; a missing attribute is not a failed call
NoFailedCall == \A i \in DOMAIN trace : trace[i].ok \/ trace[i].op = "exists"

\* C14 as stated: the run ends with the error of the step that failed,
\* passed on as it is (the missing-device case apart); in particular a poll
\* that timed out ends the run with -ETIMEDOUT.
C14_FirstErrorAsIs ==
    pc = "done" =>
        /\ ret \notin {0, -ENOENT} => exitCode = ret
        /\ ShutdownTimedOut => exitCode = -ETIMEDOUT

\* C14, amended: the run ends with 0 only when no call failed, and with the
\* error of the step that failed, except that a poll that timed out, for
\* which shutdownDevice returns -ETIMEDOUT, ends the run with -EINVAL like
\* any other failure of shutdownDevice: -ETIMEDOUT is never the final status.
C14_TimeoutEndsAsInvalid ==
    pc = "done" =>
        /\ exitCode # -ETIMEDOUT
        /\ ShutdownTimedOut => (ret = -ETIMEDOUT /\ exitCode = -EINVAL)
        /\ ret \notin {0, -ENOENT, -ETIMEDOUT} => exitCode = ret
        /\ exitCode = 0 => NoFailedCall

C14_Witness ==
    /\ pc = "done"
    /\ ShutdownTimedOut
    /\ exitCode = -EINVAL

\* positions of the remove writes that failed
FailedRemoves ==
    {i \in Positions("put") : trace[i].path[2] = "remove" /\ ~trace[i].ok}

\* C15: when a remove write fails, hotplugHandler has returned the nonzero
\* value removeDevice gave it and the failed write is the last call made:
\* no rescan, no write that would undo a step. When it is the remove of the
\* management function that failed, the shutdown write and the remove of the
\* user function that succeeded before it are still the calls before it.
C15_RemoveFailureEndsRun ==
    \A i \in FailedRemoves :
        /\ pc = "done"
        /\ ret # 0
        /\ exitCode = ret
        /\ i = Len(trace)
        /\ trace[i].path = MgmtRemove =>
             /\ trace[i - 1] = Event("put", UserRemove, TRUE)
             /\ trace[2] = Event("put", UserShutdown, TRUE)
             /\ Cardinality(Positions("put")) = 3

C15_Witness ==
    /\ pc = "done"
    /\ isRescan = 1
    /\ Occurs(Event("put", UserRemove, TRUE))
    /\ Occurs(Event("put", MgmtRemove, FALSE))

\* positions of the writes made through sysfs_put on an attribute
Writes(path) == {i \in Positions("put") : trace[i].path = path}

\* C16: nothing is retried: in one run the shutdown attribute is written at
\* most once, the remove attribute of each function at most once, and the
\* rescan file is searched for, opened and written at most once; a call that
\* failed is never followed by the same call again.
C16_NoRetry ==
    /\ Cardinality(Writes(UserShutdown)) <= 1
    /\ Cardinality(Writes(UserRemove)) <= 1
    /\ Cardinality(Writes(MgmtRemove)) <= 1
    /\ Cardinality(Positions("scan")) <= 1
    /\ Cardinality(Positions("open")) <= 1
    /\ Cardinality(Positions("write")) <= 1
    /\ \A i \in DOMAIN trace :
         (~trace[i].ok /\ trace[i].op # "exists") =>
            \A j \in (i + 1)..Len(trace) :
               ~(trace[j].op = trace[i].op /\ trace[j].path = trace[i].path)

C16_Witness ==
    /\ pc = "done"
    /\ Cardinality(Writes(UserShutdown)) = 1
    /\ Cardinality(Writes(UserRemove)) = 1
    /\ Cardinality(Writes(MgmtRemove)) = 1
    /\ Cardinality(Positions("write")) = 1

\* neither switch has been seen and none is left on the command line
NoSwitch ==
    /\ isRemove = 0
    /\ isRescan = 0
    /\ \A i \in DOMAIN argv :
         argv[i] \notin {"--offline=bdf", "--offline=nodev", "--online"}

\* C17: a run whose command line holds no recognized switch (no argument at
\* all, or only arguments that are not options) ends with -EINVAL.
C17_NoSwitchIsInvalid ==
    [][(NoSwitch /\ pc' = "done") => exitCode' = -EINVAL]_vars

\* C18: whenever hotplugRescan has returned, the stream it opened on the
\* rescan file has been closed: every open that succeeded is followed by a
\* close of the same file, after a write that went through and after one
\* that failed alike; a stream that did not open is not closed.
C18_StreamClosed ==
    /\ \A i \in Positions("open") :
         trace[i].ok <=>
            \E j \in (i + 1)..Len(trace) :
               trace[j] = Event("close", trace[i].path, TRUE)
    /\ Cardinality(Positions("close")) <= Cardinality(Positions("open"))

C18_Witness ==
    /\ pc = "done"
    /\ \E i \in Positions("write") : ~trace[i].ok
    /\ Positions("close") # {}

\* C19 as stated: a run that was asked to bring the device online and ends
\* with 0 has written "1" to a rescan file, a run that was also asked to
\* take the device offline and found it absent included.
C19_OnlineSuccessHasRescan ==
    (pc = "done" /\ isRescan = 1 /\ exitCode = 0) =>
        \E i \in RescanWrites : trace[i].path[Len(trace[i].path)] = "rescan"

\* C19, amended: a run that was asked to bring the device online and ends
\* with 0 has either written "1" to the file hotplugRescan opened, the path
\* findXilinxRootPort returned with "rescan" appended, or was also asked to
\* take the device offline and found its shutdown attribute missing, in
\* which case it has returned at once and made no call of the online path.
C19_OnlineSuccessUnlessAbsent ==
    (pc = "done" /\ isRescan = 1 /\ exitCode = 0) =>
        IF Occurs(Event("exists", UserShutdown, FALSE))
        THEN isRemove = 1 /\ OnlineOps = {}
        ELSE \E i \in RescanWrites : trace[i].path = RescanPath(rootPortPath)

C19_Witness ==
    /\ pc = "done"
    /\ isRemove = 1
    /\ isRescan = 1
    /\ exitCode = 0
    /\ Occurs(Event("exists", UserShutdown, FALSE))
    /\ OnlineOps = {}

----------------------------------------------------------------------------
(* Termination *)

\* the one kind of entry the runs checked for termination draw from: a
\* child that does not match, so that the search goes through the whole
\* listing
TermKinds == {Child(TRUE, XILINX_VENDOR, OTHER_DEVICE)}

hotplugRescanThrough == Rescan(TermKinds)

NextFair ==
    \/ CheckArgc
    \/ ParseOption
    \/ Confirm
    \/ ShutdownExists
    \/ ShutdownPut
    \/ ShutdownPoll
    \/ RemoveUserPf
    \/ RemoveMgmtPf
    \/ hotplugRescanThrough
    \/ ReturnRet

\* every step of the handler but the wait for the operator's answer
Steps ==
    \/ CheckArgc
    \/ ParseOption
    \/ ShutdownExists
    \/ ShutdownPut
    \/ ShutdownPoll
    \/ RemoveUserPf
    \/ RemoveMgmtPf
    \/ hotplugRescanThrough
    \/ ReturnRet

\* the handler is sequential code: a step that can be taken is taken
FairSpec == Init /\ [][NextFair]_vars /\ WF_vars(Steps)

RECURSIVE ScanVisits(_, _, _, _, _)
\* the children the two directory_iterator loops look at, in order, from
\* bridge i, child j on: <<i, j>> for child j of bridge i
ScanVisits(tree, i, j, vendor_id, device_id) ==
    IF i > Len(tree) THEN <<>>
    ELSE IF j > Len(tree[i]) THEN ScanVisits(tree, i + 1, 1, vendor_id, device_id)
    ELSE LET child == tree[i][j] IN
         IF ~child.dir
         THEN <<<<i, j>>>> \o ScanVisits(tree, i, j + 1, vendor_id, device_id)
         ELSE LET v == ReadAttr(child.vendor, vendor_id)
                  d == ReadAttr(child.device, device_id)
              IN  IF IsXilinxUS(v, d) THEN <<<<i, j>>>>
                  ELSE <<<<i, j>>>> \o ScanVisits(tree, i, j + 1, v, d)

\* place of a step in the handler's text
Rank ==
    [start |-> 0, getopt |-> 1, confirm |-> 2, shutdown |-> 3, put |-> 4,
     poll |-> 5, remove_user |-> 6, remove_mgmt |-> 7, online |-> 8, done |-> 9]

\* the confirmation has been given and the handler has not returned yet
Confirmed ==
    pc \in {"shutdown", "put", "poll", "remove_user", "remove_mgmt", "online"}

\* no child is looked at twice, and bridges and children come in order
VisitsOnce(visits) ==
    \A a, b \in DOMAIN visits :
        a < b => \/ visits[a][1] < visits[b][1]
                 \/ visits[a][1] = visits[b][1] /\ visits[a][2] < visits[b][2]

\* whatever listing of the given kinds the search reads, it looks at no
\* child twice
SearchVisitsOnce(kinds) ==
    \A n \in 0..MaxEntries : \A c \in Cuts(n), kids \in [1..n -> kinds] :
        VisitsOnce(ScanVisits(Listing(kids, c), 1, 1, "", ""))

\* C20: a run whose confirmation was given always reaches the end with a
\* status; on the way the status is read at most POLL_TIMEOUT times, the
\* search about to be made looks at each child of each bridge at most once
\* whatever the listing holds, and control only moves forward: no step leads
\* to an earlier one, and a step that stays in place is a turn of the poll
\* loop, which counts wait up, or of the option loop, which uses up
\* arguments.
C20_Terminates ==
    /\ [](Confirmed => <>(pc = "done"))
    /\ [](NumGets <= POLL_TIMEOUT /\ wait <= POLL_TIMEOUT)
    /\ []((pc = "online" /\ isRescan # 0) => SearchVisitsOnce(OnlineKinds))
    /\ [](Scanned => VisitsOnce(ScanVisits(sysfs, 1, 1, "", "")))
    /\ [][/\ Rank[pc'] >= Rank[pc]
          /\ pc' = pc =>
               \/ pc = "poll" /\ wait' = wait + 1
               \/ pc = "getopt" /\ Len(argv') < Len(argv)]_vars

C20_Witness ==
    /\ pc = "done"
    /\ isRemove = 1
    /\ NumGets = POLL_TIMEOUT
    /\ RemovesOk = 2
    /\ Scanned
    /\ Len(ScanVisits(sysfs, 1, 1, "", "")) = MaxEntries

====
